---- MODULE Spec2Model ----
(***************************************************************************)
(* ProductMatcher (src/src/product_matcher.py): the function-calling loop  *)
(* of process_transcript and its search helper _search_products_function,  *)
(* with the data contracts of src/src/models.py and the empty-text check   *)
(* of src/src/embeddings.py.                                               *)
(*                                                                         *)
(* Scores and confidences are fixed-point numbers in thousandths           *)
(* (0.7 is 700, 1.0 is 1000).  Texts are sequences of characters, the      *)
(* model's final message is a sequence of lexical tokens.                  *)
(***************************************************************************)
EXTENDS Integers, Sequences, FiniteSets, TLC

VARIABLES text, pc, outcome, raised_at, iteration, response, remaining,
          tool_call, query, query_embedding, all_matched_products,
          messages, result, parsed, search_status, tool_rounds,
          chat_calls, embed_calls, embed_api_calls, search_calls,
          last_call, instance,
          s_results, s_out,
          f_content, f_acc, f_out,
          m_conf, m_out,
          b_texts, b_size, b_pc, b_i, b_embeddings, b_calls, b_end,
          index_exists, i_out,
          t_runs, t_store

run_vars == <<text, pc, outcome, raised_at, iteration, response, remaining,
              tool_call, query, query_embedding, all_matched_products,
              messages, result, parsed, search_status, tool_rounds,
              chat_calls, embed_calls, embed_api_calls, search_calls,
              last_call>>

instance_vars == <<instance>>

search_vars == <<s_results, s_out>>

final_vars == <<f_content, f_acc, f_out>>

models_vars == <<m_conf, m_out>>

batch_vars == <<b_texts, b_size, b_pc, b_i, b_embeddings, b_calls, b_end>>

index_vars == <<index_exists, i_out>>

two_vars == <<t_runs, t_store>>

aux_vars == <<instance_vars, search_vars, final_vars, models_vars,
              batch_vars, index_vars, two_vars>>

vars == <<run_vars, aux_vars>>

(***************************************************************************)
(* Bounds of the model.                                                    *)
(***************************************************************************)
MaxLen == 1
MaxCalls == 2
MaxSearches == 2
MaxResults == 1
MaxContentLen == 3
MaxBatch == 3
MaxAcc == 2
MaxRawLen == 2
MaxTexts == 3
MaxBatchSize == 2
MaxOps == 4
MaxRounds == 1

(***************************************************************************)
(* Program constants.                                                      *)
(***************************************************************************)
max_iterations == 10
CONFIDENCE_THRESHOLD == 700
VECTOR_SEARCH_TOP_K == 3
ConfidenceMax == 1000
ConfidenceMin == 0

(***************************************************************************)
(* Input alphabets.  Catalog holds the entries a vector search can return: *)
(* one kept and valid, one kept with a score above 1.0, one below the      *)
(* threshold.                                                              *)
(***************************************************************************)
Chars == {" ", "a"}
Whitespace == {" "}
Names == {"p1", "p2"}
Catalog == {[product_name |-> "p1", score |-> 920],
            [product_name |-> "p2", score |-> 1500],
            [product_name |-> "p3", score |-> 500]}
BatchScores == {500, 699, 700, 704, 850, 857}
FunctionNames == {"search_products", "other_tool"}
ArgumentTexts == {"not json", "[]", "{}", "{query:}", "{query:q1}", "{query:q2}"}
Tokens == {"{", "}", "c", "b", "m", "w", "n", "x"}
MemberTokens == {"c", "b", "m", "w"}

SeqsUpTo(S, n) == UNION {[1..k -> S] : k \in 0..n}

Texts == SeqsUpTo(Chars, MaxLen)
Contents == SeqsUpTo(Tokens, MaxContentLen)
SearchResult == Catalog
BatchResult == [product_name : Names, score : BatchScores]

(***************************************************************************)
(* str.strip() and the emptiness test "not s or not s.strip()".            *)
(***************************************************************************)
RECURSIVE LStrip(_)
LStrip(s) == IF s = << >> THEN << >>
             ELSE IF Head(s) \in Whitespace THEN LStrip(Tail(s)) ELSE s

RECURSIVE RStrip(_)
RStrip(s) == IF s = << >> THEN << >>
             ELSE IF s[Len(s)] \in Whitespace
                  THEN RStrip(SubSeq(s, 1, Len(s) - 1)) ELSE s

Strip(s) == RStrip(LStrip(s))

IsEmptyText_NoStrip(s) == s = << >>

IsEmptyText(s) == s = << >> \/ Strip(s) = << >>

(***************************************************************************)
(* round(x, 2) on thousandths.  A double is exactly at a tie only for      *)
(* .125, .375, .625 and .875, which round half to even; the score sets     *)
(* hold no other value ending in 5.                                        *)
(***************************************************************************)
Round2_Up(x) == IF x % 10 = 0 THEN x ELSE x - (x % 10) + 10

Round2(x) == LET r == x % 10
                 lo == x - r
             IN IF r < 5 THEN lo
                ELSE IF r > 5 THEN lo + 10
                ELSE IF (lo \div 10) % 2 = 0 THEN lo ELSE lo + 10

(***************************************************************************)
(* _search_products_function, lines 136-146: the results kept from one     *)
(* vector search.                                                          *)
(***************************************************************************)
PassesThreshold_Always(score) == TRUE

PassesThreshold(score) == score >= CONFIDENCE_THRESHOLD

RECURSIVE FilterResults_Strict(_)
FilterResults_Strict(search_results) ==
    IF search_results = << >> THEN << >>
    ELSE LET r == Head(search_results)
             rest == FilterResults_Strict(Tail(search_results))
         IN IF r.score > CONFIDENCE_THRESHOLD
            THEN <<[product_name |-> r.product_name,
                    confidence |-> Round2(r.score)]>> \o rest
            ELSE rest

RECURSIVE FilterResults(_)
FilterResults(search_results) ==
    IF search_results = << >> THEN << >>
    ELSE LET r == Head(search_results)
             rest == FilterResults(Tail(search_results))
         IN IF PassesThreshold(r.score)
            THEN <<[product_name |-> r.product_name,
                    confidence |-> Round2(r.score)]>> \o rest
            ELSE rest

(***************************************************************************)
(* process_transcript, lines 217-219: each kept result is tagged with the  *)
(* query and appended to the accumulator.  The dict that is appended is    *)
(* the one in search_results, so the tagged list is also what line 231     *)
(* serialises into the tool message.                                       *)
(***************************************************************************)
TagContext_FirstQuery(results, q) ==
    [i \in 1..Len(results) |->
        [product_name |-> results[i].product_name,
         confidence |-> results[i].confidence,
         context |-> "q1"]]

TagContext(results, q) ==
    [i \in 1..Len(results) |->
        [product_name |-> results[i].product_name,
         confidence |-> results[i].confidence,
         context |-> q]]

(***************************************************************************)
(* models.py: MatchedProduct and ProcessingResult.                         *)
(***************************************************************************)
ConfidenceValid_NoUpperBound(c) == c >= ConfidenceMin

ConfidenceValid(c) == c >= ConfidenceMin /\ c <= ConfidenceMax

MatchedProduct_OneDecimal(p) ==
    [product_name |-> p.product_name,
     confidence |-> p.confidence - (p.confidence % 100),
     context |-> p.context]

MatchedProduct(p) == [product_name |-> p.product_name,
                      confidence |-> Round2(p.confidence),
                      context |-> p.context]

MatchedProductsValid(ps) == \A i \in 1..Len(ps) : ConfidenceValid(ps[i].confidence)

MatchedProducts(ps) == [i \in 1..Len(ps) |-> MatchedProduct(ps[i])]

RawTextValid_Always(t) == TRUE

RawTextValid(t) == ~IsEmptyText(t)

ProcessingResult(mp, competitor, placement, raw) ==
    [matched_products |-> mp,
     competitor_advantage_mentioned |-> competitor,
     bad_placement_mentioned |-> placement,
     raw_text |-> raw]

(***************************************************************************)
(* json.loads on the arguments text of a tool call, and dict.get.          *)
(***************************************************************************)
ArgsLoads(a) ==
    CASE a = "not json"   -> [ok |-> FALSE, is_dict |-> FALSE, has_query |-> FALSE, query |-> ""]
      [] a = "[]"         -> [ok |-> TRUE, is_dict |-> FALSE, has_query |-> FALSE, query |-> ""]
      [] a = "{}"         -> [ok |-> TRUE, is_dict |-> TRUE, has_query |-> FALSE, query |-> ""]
      [] a = "{query:}"   -> [ok |-> TRUE, is_dict |-> TRUE, has_query |-> TRUE, query |-> ""]
      [] a = "{query:q1}" -> [ok |-> TRUE, is_dict |-> TRUE, has_query |-> TRUE, query |-> "q1"]
      [] a = "{query:q2}" -> [ok |-> TRUE, is_dict |-> TRUE, has_query |-> TRUE, query |-> "q2"]

ArgsGetQuery(args) == IF args.has_query THEN args.query ELSE ""

(***************************************************************************)
(* The final message: str.find, str.rfind, slicing and json.loads on a     *)
(* token sequence.  "{" and "}" are braces, "c", "b", "m", "w" are members *)
(* of an object (competitor_advantage_mentioned: true,                     *)
(* bad_placement_mentioned: true, matched_products with two well-formed    *)
(* entries of confidence 0.3 and 0.857, matched_products with one entry    *)
(* whose confidence is 1.5), "n" is the literal null and "x" is prose.     *)
(***************************************************************************)
Find(s, t) == IF \E i \in 1..Len(s) : s[i] = t
              THEN (CHOOSE i \in 1..Len(s) :
                       s[i] = t /\ \A j \in 1..(i - 1) : s[j] # t) - 1
              ELSE -1

RFind(s, t) == IF \E i \in 1..Len(s) : s[i] = t
               THEN (CHOOSE i \in 1..Len(s) :
                        s[i] = t /\ \A j \in (i + 1)..Len(s) : s[j] # t) - 1
               ELSE -1

Slice(s, from, to) == SubSeq(s, from + 1, to)

JsonEntryM == [product_name |-> "pm", confidence |-> 300, context |-> "cm"]
JsonEntryR == [product_name |-> "pr", confidence |-> 857, context |-> "cr"]
JsonEntryW == [product_name |-> "pw", confidence |-> 1500, context |-> "cw"]

LastListMember(inner) ==
    LET idx == {i \in 1..Len(inner) : inner[i] \in {"m", "w"}}
        last == CHOOSE i \in idx : \A j \in idx : j <= i
    IN IF inner[last] = "m" THEN <<JsonEntryM, JsonEntryR>> ELSE <<JsonEntryW>>

JsonLoads(s) ==
    IF s = <<"n">>
    THEN [ok |-> TRUE, is_dict |-> FALSE, keys |-> {}, matched_products |-> << >>]
    ELSE IF Len(s) >= 2 /\ s[1] = "{" /\ s[Len(s)] = "}"
            /\ \A i \in 2..(Len(s) - 1) : s[i] \in MemberTokens
    THEN LET inner == SubSeq(s, 2, Len(s) - 1)
             hasList == \E i \in 1..Len(inner) : inner[i] \in {"m", "w"}
         IN [ok |-> TRUE, is_dict |-> TRUE,
             keys |-> {inner[i] : i \in 1..Len(inner)},
             matched_products |-> IF hasList THEN LastListMember(inner) ELSE << >>]
    ELSE [ok |-> FALSE, is_dict |-> FALSE, keys |-> {}, matched_products |-> << >>]

ExtractJson(final_content) ==
    LET json_start == Find(final_content, "{")
        json_end == RFind(final_content, "}") + 1
    IN IF json_start >= 0 /\ json_end > json_start
       THEN JsonLoads(Slice(final_content, json_start, json_end))
       ELSE JsonLoads(final_content)

(***************************************************************************)
(* process_transcript, lines 233-303: the branch taken when the response   *)
(* carries no tool call.  The value is the way the branch ends: the        *)
(* exception that leaves it, or the ProcessingResult it returns.           *)
(***************************************************************************)
Raised(e, p) == [outcome |-> e, result |-> << >>, parsed |-> p]

RawTextOf_Stripped(raw) == Strip(raw)

RawTextOf(raw) == raw

Returned_Twice(mp, competitor, placement, raw, p) ==
    IF RawTextValid(raw)
    THEN [outcome |-> "result",
          result |-> <<ProcessingResult(<< >>, FALSE, FALSE, RawTextOf(raw)),
                       ProcessingResult(mp, competitor, placement,
                                        RawTextOf(raw))>>,
          parsed |-> p]
    ELSE Raised("ValidationError", p)

Returned(mp, competitor, placement, raw, p) ==
    IF RawTextValid(raw)
    THEN [outcome |-> "result",
          result |-> <<ProcessingResult(mp, competitor, placement,
                                        RawTextOf(raw))>>,
          parsed |-> p]
    ELSE Raised("ValidationError", p)

FromAccumulator(acc, raw, p) ==
    IF MatchedProductsValid(acc)
    THEN Returned(MatchedProducts(acc), FALSE, FALSE, raw, p)
    ELSE Raised("ValidationError", p)

UseAccumulator_JsonFirst(acc, result_data) ==
    acc # << >> /\ result_data.keys \cap {"m", "w"} = {}

UseAccumulator(acc, result_data) == acc # << >>

ProductsFromJson_Ignored(result_data) == << >>

ProductsFromJson(result_data) == result_data.matched_products

GetFlag_Swapped(result_data, key) ==
    IF key = "c" THEN "b" \in result_data.keys ELSE "c" \in result_data.keys

GetFlag(result_data, key) == key \in result_data.keys

FinalAnswer(result_data, acc, raw) ==
    IF ~result_data.ok
    THEN FromAccumulator(acc, raw, "failed")
    ELSE LET p == IF ~result_data.is_dict THEN "other"
                  ELSE IF result_data.keys \cap {"m", "w"} # {}
                  THEN "dict_products" ELSE "dict"
         IN IF UseAccumulator(acc, result_data)
            THEN IF ~MatchedProductsValid(acc)
                 THEN Raised("ValidationError", p)
                 ELSE IF ~result_data.is_dict
                 THEN Raised("AttributeError", p)
                 ELSE Returned(MatchedProducts(acc),
                               GetFlag(result_data, "c"),
                               GetFlag(result_data, "b"), raw, p)
            ELSE IF ~result_data.is_dict
                 THEN Raised("TypeError", p)
                 ELSE IF ~MatchedProductsValid(ProductsFromJson(result_data))
                 THEN Raised("ValidationError", p)
                 ELSE Returned(MatchedProducts(ProductsFromJson(result_data)),
                               GetFlag(result_data, "c"),
                               GetFlag(result_data, "b"), raw, p)

(***************************************************************************)
(* The final messages of the model as line 245 or 248 loads them, and the  *)
(* ways the branch can end: message.content is None, where line 241        *)
(* raises, or it is one of Contents.                                       *)
(***************************************************************************)
LoadedContents == {ExtractJson(final_content) : final_content \in Contents}

FinalAnswers(acc, raw) ==
    {Raised("AttributeError", "no_content")}
        \cup {FinalAnswer(result_data, acc, raw) : result_data \in LoadedContents}

(***************************************************************************)
(* Messages of the conversation.                                           *)
(***************************************************************************)
SystemMessage == [role |-> "system", content |-> "SYSTEM_PROMPT"]
UserMessage(t) ==
    [role |-> "user",
     content |-> [prefix |-> "Analyzuj tento transkript:", text |-> t]]
AssistantMessage(tc) == [role |-> "assistant", content |-> "None", tool_calls |-> <<tc>>]
ToolMessage_StaleId(tc, search_results) ==
    [role |-> "tool", tool_call_id |-> tc.id - 1, name |-> tc.name,
     content |-> search_results]

ToolMessage(tc, search_results) ==
    [role |-> "tool", tool_call_id |-> tc.id, name |-> tc.name,
     content |-> search_results]

(***************************************************************************)
(* The tool calls of a response.  The model chooses the function name and  *)
(* the arguments text of a call; its id is only copied by the code (line   *)
(* 229), never compared, so the call that is resolved as the k-th          *)
(* search_products invocation of the run is given the id k.                *)
(***************************************************************************)
NoToolCall == [name |-> "", arguments |-> "", id |-> 0]
ToolCalls == [name : FunctionNames, arguments : ArgumentTexts]
ToolCallId(ms) == (Len(ms) - 2) \div 2 + 1
WithId(tc, ms) ==
    [name |-> tc.name, arguments |-> tc.arguments, id |-> ToolCallId(ms)]

(***************************************************************************)
(* The state after construction and before process_transcript is entered.  *)
(***************************************************************************)
(***************************************************************************)
(* ProductMatcher.__init__, lines 90-108: the fields of the instance.      *)
(***************************************************************************)
Constructed ==
    instance = [openai_client |-> "AzureOpenAIClient",
                search_client |-> "AzureSearchClient",
                embedding_generator |-> "EmbeddingGenerator",
                search_function |-> "search_products"]

(***************************************************************************)
(* The calls made to the collaborators: chat_completion (lines 192-196),   *)
(* generate_embedding (line 128) and vector_search (lines 131-134).        *)
(***************************************************************************)
NoCall == [service |-> "none", request |-> << >>]

ChatCall_LastMessage(ms) ==
    [service |-> "chat",
     request |-> [messages |-> <<ms[Len(ms)]>>,
                  functions |-> <<instance.search_function>>]]

ChatCall(ms) ==
    [service |-> "chat",
     request |-> [messages |-> ms, functions |-> <<instance.search_function>>]]

EmbedCall(q) == [service |-> "embed", request |-> [text |-> q]]

SearchCall_TopOne(embedding) ==
    [service |-> "search",
     request |-> [query_vector |-> embedding, top_k |-> 1]]

SearchCall(embedding) ==
    [service |-> "search",
     request |-> [query_vector |-> embedding, top_k |-> VECTOR_SEARCH_TOP_K]]

RunIdle ==
    /\ outcome = "none"
    /\ raised_at = "none"
    /\ iteration = 0
    /\ response = "none"
    /\ remaining = 0
    /\ tool_call = NoToolCall
    /\ query = ""
    /\ query_embedding = << >>
    /\ all_matched_products = << >>
    /\ messages = << >>
    /\ result = << >>
    /\ parsed = "none"
    /\ search_status = "none"
    /\ tool_rounds = 0
    /\ chat_calls = 0
    /\ embed_calls = 0
    /\ embed_api_calls = 0
    /\ search_calls = 0
    /\ last_call = NoCall
    /\ Constructed

InitRun ==
    /\ pc = "start"
    /\ RunIdle

SearchIdle ==
    /\ s_results = << >>
    /\ s_out = << >>

FinalIdle ==
    /\ f_content = << >>
    /\ f_acc = << >>
    /\ f_out = << >>

ModelsIdle ==
    /\ m_conf = 0
    /\ m_out = << >>

BatchIdle ==
    /\ b_texts = << >>
    /\ b_size = 1
    /\ b_pc = "idle"
    /\ b_i = 0
    /\ b_embeddings = << >>
    /\ b_calls = << >>
    /\ b_end = "none"

IndexIdle ==
    /\ index_exists = FALSE
    /\ i_out = << >>

TwoIdle ==
    /\ t_runs = << >>
    /\ t_store = << >>

(***************************************************************************)
(* The transcripts of a run: process_transcript reads the transcript in    *)
(* the blank check of line 166 and copies it into the user message and    *)
(* the results, so the blank transcripts of every length are drawn and,   *)
(* of the others, the ones of one character.                               *)
(***************************************************************************)
RunTexts == {t \in Texts : IsEmptyText(t) \/ Len(t) <= 1}

Init ==
    /\ text \in RunTexts
    /\ InitRun
    /\ SearchIdle
    /\ FinalIdle
    /\ ModelsIdle
    /\ BatchIdle
    /\ IndexIdle
    /\ TwoIdle

(***************************************************************************)
(* process_transcript, lines 166-185.                                      *)
(***************************************************************************)
FreshAccumulator_Carried(acc) == acc

FreshAccumulator(acc) == << >>

Validate ==
    /\ pc = "start"
    /\ IF IsEmptyText(text)
       THEN /\ pc' = "done"
            /\ outcome' = "ValueError"
            /\ raised_at' = "validate"
            /\ UNCHANGED <<messages, all_matched_products, iteration>>
       ELSE /\ pc' = "loop"
            /\ messages' = <<SystemMessage, UserMessage(text)>>
            /\ all_matched_products' = FreshAccumulator(all_matched_products)
            /\ iteration' = 0
            /\ UNCHANGED <<outcome, raised_at>>
    /\ UNCHANGED <<text, response, remaining, tool_call, query,
                   query_embedding, result, parsed, search_status,
                   tool_rounds, chat_calls, embed_calls, embed_api_calls,
                   search_calls, last_call, aux_vars>>

(***************************************************************************)
(* Lines 187-201: one pass of the loop calls the model, which answers with *)
(* tool calls, answers with a final message, or throws.                    *)
(***************************************************************************)
NextIteration(i) == i + 1

LoopGuard_Always == TRUE

LoopGuard_OneLess == iteration < max_iterations - 1

LoopGuard_Inclusive == iteration <= max_iterations

LoopGuard == iteration < max_iterations

ChatToolCalls ==
    /\ search_status' = "none"
    /\ pc = "loop"
    /\ LoopGuard
    /\ \E n \in 1..MaxCalls : remaining' = n
    /\ iteration' = NextIteration(iteration)
    /\ chat_calls' = chat_calls + 1
    /\ last_call' = ChatCall(messages)
    /\ response' = "tool_calls"
    /\ tool_rounds' = tool_rounds + 1
    /\ pc' = "tools"
    /\ UNCHANGED <<text, outcome, raised_at, tool_call, query, query_embedding,
                   all_matched_products, messages, result, parsed,
                   embed_calls, embed_api_calls, search_calls, aux_vars>>

ChatFinal ==
    /\ search_status' = "none"
    /\ pc = "loop"
    /\ LoopGuard
    /\ \E end \in FinalAnswers(all_matched_products, text) :
             /\ outcome' = end.outcome
             /\ result' = end.result
             /\ parsed' = end.parsed
             /\ raised_at' = IF end.outcome = "result" THEN "none" ELSE "final"
    /\ iteration' = NextIteration(iteration)
    /\ chat_calls' = chat_calls + 1
    /\ last_call' = ChatCall(messages)
    /\ response' = "final"
    /\ pc' = "done"
    /\ UNCHANGED <<text, remaining, tool_call, query, query_embedding,
                   all_matched_products, messages, tool_rounds,
                   embed_calls, embed_api_calls, search_calls, aux_vars>>

ChatRaised_Degraded(acc, raw) == FromAccumulator(acc, raw, "none")

ChatRaised(acc, raw) == Raised("ModelError", "none")

ChatRaises ==
    /\ search_status' = "none"
    /\ pc = "loop"
    /\ LoopGuard
    /\ iteration' = NextIteration(iteration)
    /\ chat_calls' = chat_calls + 1
    /\ last_call' = ChatCall(messages)
    /\ response' = "raised"
    /\ LET end == ChatRaised(all_matched_products, text)
       IN /\ outcome' = end.outcome
          /\ result' = end.result
          /\ raised_at' = IF end.outcome = "result" THEN "none" ELSE "chat"
    /\ pc' = "done"
    /\ UNCHANGED <<text, remaining, tool_call, query, query_embedding,
                   all_matched_products, messages, parsed,
                   tool_rounds, embed_calls, embed_api_calls, search_calls, aux_vars>>

(***************************************************************************)
(* Lines 305-323: the loop ended without a final message.                  *)
(***************************************************************************)
MaxIterationsReached ==
    /\ search_status' = "none"
    /\ last_call' = NoCall
    /\ pc = "loop"
    /\ ~LoopGuard
    /\ LET end == FromAccumulator(all_matched_products, text, parsed)
       IN /\ outcome' = end.outcome
          /\ result' = end.result
          /\ raised_at' = IF end.outcome = "result" THEN "none" ELSE "cap"
    /\ pc' = "done"
    /\ UNCHANGED <<text, iteration, response, remaining, tool_call, query,
                   query_embedding, all_matched_products, messages, parsed,
                   tool_rounds, chat_calls, embed_calls, embed_api_calls,
                   search_calls, aux_vars>>

(***************************************************************************)
(* Lines 203-232: the loop over the tool calls of a response.  The calls   *)
(* of a response are drawn one by one as the loop reaches them; remaining  *)
(* counts the calls of the response not yet handled.                       *)
(***************************************************************************)
IsSearchProducts_Any(function_name) == TRUE

IsSearchProducts(function_name) == function_name = "search_products"

NextCall_BackToModel(n) == "loop"

NextCall_StopAtCap(n) ==
    IF n = 0 \/ iteration = max_iterations THEN "loop" ELSE "tools"

NextCall(n) == IF n = 0 THEN "loop" ELSE "tools"

AccumulatorAppend_Replace(acc, found) == found

AccumulatorAppend_Front(acc, found) == found \o acc

AccumulatorAppend(acc, found) == acc \o found

SearchExcept_Reraise == [reraise |-> TRUE, results |-> << >>]

SearchExcept == [reraise |-> FALSE, results |-> << >>]

EndToolCall(search_results, status) ==
    LET found == TagContext(search_results, query)
    IN /\ all_matched_products' = AccumulatorAppend(all_matched_products, found)
       /\ messages' = messages \o <<AssistantMessage(tool_call),
                                    ToolMessage(tool_call, found)>>
       /\ remaining' = remaining - 1
       /\ pc' = NextCall(remaining - 1)
       /\ search_status' = status
       /\ tool_call' = NoToolCall
       /\ query' = ""
       /\ query_embedding' = << >>
       /\ UNCHANGED <<outcome, raised_at>>

SearchRaised(status) ==
    IF SearchExcept.reraise
    THEN /\ outcome' = "SearchError"
         /\ raised_at' = "search"
         /\ pc' = "done"
         /\ search_status' = status
         /\ UNCHANGED <<all_matched_products, messages, remaining, tool_call,
                        query, query_embedding>>
    ELSE EndToolCall(SearchExcept.results, status)

ToolCall ==
    /\ search_status' = "none"
    /\ pc = "tools"
    /\ \E tc \in ToolCalls :
          LET function_args == ArgsLoads(tc.arguments)
          IN IF ~function_args.ok
             THEN /\ outcome' = "JSONDecodeError"
                  /\ raised_at' = "tool_call"
                  /\ pc' = "done"
                  /\ last_call' = NoCall
                  /\ UNCHANGED <<remaining, tool_call, query>>
             ELSE IF ~IsSearchProducts(tc.name)
             THEN /\ remaining' = remaining - 1
                  /\ pc' = NextCall(remaining - 1)
                  /\ UNCHANGED <<outcome, raised_at, tool_call, query,
                                 last_call>>
             ELSE IF ~function_args.is_dict
             THEN /\ outcome' = "AttributeError"
                  /\ raised_at' = "tool_call"
                  /\ pc' = "done"
                  /\ last_call' = NoCall
                  /\ UNCHANGED <<remaining, tool_call, query>>
             ELSE /\ Len(messages) < 2 + 2 * MaxSearches
                  /\ tool_call' = WithId(tc, messages)
                  /\ query' = ArgsGetQuery(function_args)
                  /\ pc' = "embed"
                  /\ last_call' = NoCall
                  /\ UNCHANGED <<outcome, raised_at, remaining>>
    /\ UNCHANGED <<text, iteration, response, query_embedding,
                   all_matched_products, messages, result, parsed,
                   tool_rounds, chat_calls, embed_calls, embed_api_calls,
                   search_calls, aux_vars>>

(***************************************************************************)
(* _search_products_function, line 128, with the empty-text check of       *)
(* EmbeddingGenerator.generate_embedding (embeddings.py, line 57).         *)
(***************************************************************************)
EmbeddingRejects_Never(q) == FALSE

EmbeddingRejects(q) == q = ""

GenerateEmbedding ==
    /\ pc = "embed"
    /\ last_call' = EmbedCall(query)
    /\ embed_calls' = embed_calls + 1
    /\ embed_api_calls' = IF EmbeddingRejects(query)
                          THEN embed_api_calls
                          ELSE embed_api_calls + 1
    /\ \/ /\ ~EmbeddingRejects(query)
          /\ query_embedding' = <<query>>
          /\ pc' = "search"
          /\ UNCHANGED <<outcome, raised_at, remaining, tool_call, query,
                         all_matched_products, messages, search_status>>
       \/ SearchRaised("embed_raised")
    /\ UNCHANGED <<text, iteration, response, result, parsed, tool_rounds,
                   chat_calls, search_calls, aux_vars>>

(***************************************************************************)
(* _search_products_function, lines 131-150.                               *)
(***************************************************************************)
VectorSearch ==
    /\ pc = "search"
    /\ last_call' = SearchCall(query_embedding)
    /\ search_calls' = search_calls + 1
    /\ \/ \E search_results \in SeqsUpTo(SearchResult, MaxResults) :
             EndToolCall(FilterResults(search_results), "ok")
       \/ SearchRaised("search_raised")
    /\ UNCHANGED <<text, iteration, response, result, parsed, tool_rounds,
                   chat_calls, embed_calls, embed_api_calls, aux_vars>>

Next ==
    \/ Validate
    \/ ChatToolCalls
    \/ ChatFinal
    \/ ChatRaises
    \/ MaxIterationsReached
    \/ ToolCall
    \/ GenerateEmbedding
    \/ VectorSearch

Spec == Init /\ [][Next]_vars

(***************************************************************************)
(* A run in which every call of a collaborator returns or throws and every *)
(* local step of lines 166-323 is taken: a step that is possible is        *)
(* eventually taken.  The transcripts are the ones of at most one          *)
(* character, blank and not blank.                                         *)
(***************************************************************************)
ShortTexts == {t \in Texts : Len(t) <= 1}

InitLive == Init /\ text \in ShortTexts

SpecLive == InitLive /\ [][Next]_vars /\ WF_vars(Next)

(***************************************************************************)
(* Successive calls of process_transcript on one instance (line 152).  A   *)
(* call that has ended is followed by a call with another transcript.      *)
(* messages and all_matched_products keep what the previous call left in   *)
(* them until lines 174-180 of the new call assign them.                   *)
(* The transcripts of the calls are the ones of ShortTexts.                *)
(***************************************************************************)
ProcessNext ==
    /\ pc = "done"
    /\ pc' = "start"
    /\ text' \in ShortTexts
    /\ outcome' = "none"
    /\ raised_at' = "none"
    /\ iteration' = 0
    /\ response' = "none"
    /\ remaining' = 0
    /\ tool_call' = NoToolCall
    /\ query' = ""
    /\ query_embedding' = << >>
    /\ result' = << >>
    /\ parsed' = "none"
    /\ search_status' = "none"
    /\ tool_rounds' = 0
    /\ chat_calls' = 0
    /\ embed_calls' = 0
    /\ embed_api_calls' = 0
    /\ search_calls' = 0
    /\ last_call' = NoCall
    /\ UNCHANGED <<messages, all_matched_products, aux_vars>>

NextCalls ==
    \/ Next
    \/ ProcessNext

SpecCalls == InitLive /\ [][NextCalls]_vars

(***************************************************************************)
(* _search_products_function on one list of search results.                *)
(***************************************************************************)
InitSearch ==
    /\ text = << >>
    /\ InitRun
    /\ s_results \in SeqsUpTo(BatchResult, MaxBatch)
    /\ s_out = << >>
    /\ FinalIdle
    /\ ModelsIdle
    /\ BatchIdle
    /\ IndexIdle
    /\ TwoIdle

SearchProducts ==
    /\ s_out = << >>
    /\ pc = "start"
    /\ s_out' = <<FilterResults(s_results)>>
    /\ UNCHANGED s_results
    /\ UNCHANGED <<run_vars, instance_vars, two_vars, batch_vars, index_vars,
                   final_vars, models_vars>>

NextSearch == SearchProducts

SpecSearch == InitSearch /\ [][NextSearch]_vars

(***************************************************************************)
(* The way of one list of search results through the run: the results kept *)
(* by _search_products_function (lines 136-146) are tagged and accumulated *)
(* (lines 217-219), the tagged list is what line 231 writes into the tool  *)
(* message, and lines 307-321 build the returned matches from the          *)
(* accumulator.                                                            *)
(***************************************************************************)
InitPipeline ==
    /\ text = <<"a">>
    /\ InitRun
    /\ s_results \in SeqsUpTo(BatchResult, MaxBatch)
    /\ s_out = << >>
    /\ FinalIdle
    /\ ModelsIdle
    /\ BatchIdle
    /\ IndexIdle
    /\ TwoIdle

AccumulateAndReturn ==
    /\ pc = "start"
    /\ s_out # << >>
    /\ f_out = << >>
    /\ f_acc' = AccumulatorAppend(f_acc, TagContext(s_out[1], "q1"))
    /\ f_out' = <<[path |-> "cap",
                   end |-> FromAccumulator(f_acc', text, "none")]>>
    /\ UNCHANGED <<f_content, run_vars, instance_vars, two_vars, batch_vars,
                   index_vars, search_vars,
                   models_vars>>

NextPipeline ==
    \/ SearchProducts
    \/ AccumulateAndReturn

SpecPipeline == InitPipeline /\ [][NextPipeline]_vars

(***************************************************************************)
(* The ways process_transcript returns, as functions of the final message, *)
(* the accumulator and the transcript: the branch of lines 233-303 on one  *)
(* final message, and the return of lines 305-323.  The transcript is one  *)
(* that passed the check of lines 166-167, the accumulator is a list that  *)
(* _search_products_function and lines 217-219 can have built.             *)
(***************************************************************************)
RawTexts == {t \in SeqsUpTo(Chars, MaxRawLen) : ~IsEmptyText(t)}

Accumulators ==
    {TagContext(FilterResults(sr), "q1") : sr \in SeqsUpTo(Catalog, MaxAcc)}

InitFinal ==
    /\ pc = "final"
    /\ RunIdle
    /\ text \in RawTexts
    /\ f_content \in Contents
    /\ f_acc \in Accumulators
    /\ f_out = << >>
    /\ SearchIdle
    /\ ModelsIdle
    /\ BatchIdle
    /\ IndexIdle
    /\ TwoIdle

FinalBranch ==
    /\ pc = "final"
    /\ f_out = << >>
    /\ f_out' = <<[path |-> "final",
                   end |-> FinalAnswer(ExtractJson(f_content), f_acc, text)]>>
    /\ UNCHANGED <<f_content, f_acc, run_vars, instance_vars, two_vars, batch_vars,
                   index_vars, search_vars,
                   models_vars>>

CapReturn ==
    /\ pc = "final"
    /\ f_out = << >>
    /\ f_out' = <<[path |-> "cap",
                   end |-> FromAccumulator(f_acc, text, "none")]>>
    /\ UNCHANGED <<f_content, f_acc, run_vars, instance_vars, two_vars, batch_vars,
                   index_vars, search_vars,
                   models_vars>>

NextFinal ==
    \/ FinalBranch
    \/ CapReturn

SpecFinal == InitFinal /\ [][NextFinal]_vars

(***************************************************************************)
(* models.py: construction of a MatchedProduct from a confidence and of a  *)
(* ProcessingResult from a raw_text.  The confidences are values a double  *)
(* rounds as Round2 does: no thousandth ending in 5 other than the exact   *)
(* ties.                                                                   *)
(***************************************************************************)
ConfidenceInputs ==
    {c \in (ConfidenceMin - 20)..(ConfidenceMax + 520) :
        c % 10 # 5 \/ c % 250 = 125}

InitModels ==
    /\ pc = "models"
    /\ RunIdle
    /\ text \in Texts
    /\ m_conf \in ConfidenceInputs
    /\ m_out = << >>
    /\ SearchIdle
    /\ FinalIdle
    /\ BatchIdle
    /\ IndexIdle
    /\ TwoIdle

ConstructMatchedProduct ==
    /\ pc = "models"
    /\ m_out = << >>
    /\ m_out' = <<[model |-> "MatchedProduct",
                   status |-> IF ConfidenceValid(m_conf)
                              THEN "ok" ELSE "ValidationError",
                   value |-> IF ConfidenceValid(m_conf)
                             THEN <<MatchedProduct([product_name |-> "p1",
                                                    confidence |-> m_conf,
                                                    context |-> "q1"])>>
                             ELSE << >>]>>
    /\ UNCHANGED <<m_conf, run_vars, instance_vars, two_vars, batch_vars, index_vars,
                   search_vars, final_vars>>

ConstructProcessingResult ==
    /\ pc = "models"
    /\ m_out = << >>
    /\ LET end == Returned(<< >>, FALSE, FALSE, text, "none")
       IN m_out' = <<[model |-> "ProcessingResult",
                      status |-> IF end.outcome = "result"
                                 THEN "ok" ELSE end.outcome,
                      value |-> end.result]>>
    /\ UNCHANGED <<m_conf, run_vars, instance_vars, two_vars, batch_vars, index_vars,
                   search_vars, final_vars>>

NextModels ==
    \/ ConstructMatchedProduct
    \/ ConstructProcessingResult

SpecModels == InitModels /\ [][NextModels]_vars

(***************************************************************************)
(* EmbeddingGenerator.generate_embeddings_batch (embeddings.py, lines      *)
(* 74-128).  A text is a sequence of characters; the embedding the API     *)
(* returns for an input is written <<input>>, and response.data holds one  *)
(* item per input, in the order of the inputs.  b_calls is the list of the *)
(* inputs of the API calls made.                                           *)
(***************************************************************************)
BatchTexts == {<< >>, <<" ">>, <<"a">>, <<" ", "a", "a">>}

EmbeddingOf(input) == <<input>>

RECURSIVE CleanBatch(_)
CleanBatch(batch) ==
    IF batch = << >> THEN << >>
    ELSE IF IsEmptyText(Head(batch))
         THEN CleanBatch(Tail(batch))
         ELSE <<Strip(Head(batch))>> \o CleanBatch(Tail(batch))

BatchAt(texts, i, batch_size) ==
    SubSeq(texts, i + 1, IF i + batch_size < Len(texts)
                         THEN i + batch_size ELSE Len(texts))

InitBatch ==
    /\ text = << >>
    /\ InitRun
    /\ SearchIdle
    /\ FinalIdle
    /\ ModelsIdle
    /\ IndexIdle
    /\ b_texts \in SeqsUpTo(BatchTexts, MaxTexts)
    /\ b_size \in 1..MaxBatchSize
    /\ b_pc = "start"
    /\ b_i = 0
    /\ b_embeddings = << >>
    /\ b_calls = << >>
    /\ b_end = "none"
    /\ TwoIdle

BatchValidate ==
    /\ b_pc = "start"
    /\ IF b_texts = << >>
       THEN /\ b_pc' = "done"
            /\ b_end' = "ValueError"
       ELSE /\ b_pc' = "loop"
            /\ b_end' = b_end
    /\ UNCHANGED <<b_texts, b_size, b_i, b_embeddings, b_calls>>
    /\ UNCHANGED <<run_vars, instance_vars, two_vars, search_vars, final_vars,
                   models_vars, index_vars>>

BatchSkip ==
    /\ b_pc = "loop"
    /\ b_i < Len(b_texts)
    /\ CleanBatch(BatchAt(b_texts, b_i, b_size)) = << >>
    /\ b_i' = b_i + b_size
    /\ UNCHANGED <<b_texts, b_size, b_pc, b_embeddings, b_calls, b_end>>
    /\ UNCHANGED <<run_vars, instance_vars, two_vars, search_vars, final_vars,
                   models_vars, index_vars>>

BatchCreate ==
    /\ b_pc = "loop"
    /\ b_i < Len(b_texts)
    /\ LET cleaned_batch == CleanBatch(BatchAt(b_texts, b_i, b_size))
       IN /\ cleaned_batch # << >>
          /\ b_calls' = Append(b_calls, cleaned_batch)
          /\ b_embeddings' = b_embeddings \o
                [k \in 1..Len(cleaned_batch) |-> EmbeddingOf(cleaned_batch[k])]
    /\ b_i' = b_i + b_size
    /\ UNCHANGED <<b_texts, b_size, b_pc, b_end>>
    /\ UNCHANGED <<run_vars, instance_vars, two_vars, search_vars, final_vars,
                   models_vars, index_vars>>

BatchCreateRaises ==
    /\ b_pc = "loop"
    /\ b_i < Len(b_texts)
    /\ LET cleaned_batch == CleanBatch(BatchAt(b_texts, b_i, b_size))
       IN /\ cleaned_batch # << >>
          /\ b_calls' = Append(b_calls, cleaned_batch)
    /\ b_pc' = "done"
    /\ b_end' = "OpenAIError"
    /\ UNCHANGED <<b_texts, b_size, b_i, b_embeddings>>
    /\ UNCHANGED <<run_vars, instance_vars, two_vars, search_vars, final_vars,
                   models_vars, index_vars>>

BatchReturn ==
    /\ b_pc = "loop"
    /\ b_i >= Len(b_texts)
    /\ b_pc' = "done"
    /\ b_end' = "returned"
    /\ UNCHANGED <<b_texts, b_size, b_i, b_embeddings, b_calls>>
    /\ UNCHANGED <<run_vars, instance_vars, two_vars, search_vars, final_vars,
                   models_vars, index_vars>>

NextBatch ==
    \/ BatchValidate
    \/ BatchSkip
    \/ BatchCreate
    \/ BatchCreateRaises
    \/ BatchReturn

SpecBatch == InitBatch /\ [][NextBatch]_vars

(***************************************************************************)
(* AzureSearchClient.create_index and delete_index (azure_client.py, lines *)
(* 164-237 and 327-346) called one after the other on one client.          *)
(* index_exists is the state of the search service: get_index returns     *)
(* when the index exists and raises ResourceNotFoundError when it does     *)
(* not (lines 180-184), the service's delete_index raises                  *)
(* ResourceNotFoundError when there is no index to delete (line 341), and  *)
(* each call of the service can fail with another HttpResponseError,       *)
(* which leaves the service as it was.  i_out is the list of the calls     *)
(* made, each with the state before and after it and what it returned or   *)
(* raised.                                                                 *)
(***************************************************************************)
CreateIndex_Overwrite(exists) == [returned |-> "True", exists |-> TRUE]

CreateIndex(exists) ==
    IF exists
    THEN [returned |-> "False", exists |-> exists]
    ELSE [returned |-> "True", exists |-> TRUE]

DeleteIndex(exists) ==
    IF exists
    THEN [returned |-> "True", exists |-> FALSE]
    ELSE [returned |-> "False", exists |-> exists]

IndexCall(op, end) ==
    /\ Len(i_out) < MaxOps
    /\ index_exists' = end.exists
    /\ i_out' = Append(i_out, [op |-> op, before |-> index_exists,
                               after |-> end.exists,
                               returned |-> end.returned])
    /\ UNCHANGED <<run_vars, instance_vars, two_vars, search_vars, final_vars,
                   models_vars, batch_vars>>

InitIndex ==
    /\ text = << >>
    /\ pc = "index"
    /\ RunIdle
    /\ SearchIdle
    /\ FinalIdle
    /\ ModelsIdle
    /\ BatchIdle
    /\ index_exists \in BOOLEAN
    /\ i_out = << >>
    /\ TwoIdle

CreateIndexCall == IndexCall("create_index", CreateIndex(index_exists))

CreateIndexRaises ==
    IndexCall("create_index",
              [returned |-> "HttpResponseError", exists |-> index_exists])

DeleteIndexCall == IndexCall("delete_index", DeleteIndex(index_exists))

DeleteIndexRaises ==
    IndexCall("delete_index",
              [returned |-> "HttpResponseError", exists |-> index_exists])

NextIndex ==
    \/ CreateIndexCall
    \/ CreateIndexRaises
    \/ DeleteIndexCall
    \/ DeleteIndexRaises

SpecIndex == InitIndex /\ [][NextIndex]_vars

(***************************************************************************)
(* Two calls of process_transcript in progress at once on one instance,    *)
(* their steps interleaved between the calls of the collaborators.         *)
(* messages, all_matched_products and iteration are local variables of a   *)
(* call (lines 174-185): t_store[i] holds the conversation and the         *)
(* accumulator of call i, t_runs[i] the rest of its locals, its position   *)
(* and the answers the collaborators gave it.  The instance is shared and  *)
(* only read.  A step of a call is a function of the locals of that call   *)
(* and of the answer of the collaborator: a response with one              *)
(* search_products invocation, a final message or an exception for the     *)
(* model, an embedding or an exception for the embedding generator, a list *)
(* of results or an exception for the search.                              *)
(***************************************************************************)
Threads == {1, 2}
TwoTexts == {<<" ">>, <<"a">>, <<"a", "a">>}
TwoArguments == {"{query:q1}", "{query:q2}"}
TwoFinals == {ExtractJson(<<"{", "c", "}">>), ExtractJson(<<"x">>)}
TwoSearchResults == {<< >>, <<[product_name |-> "p1", score |-> 920]>>}

Owner_OfInstance(i) == 1

Owner(i) == i

InitialLocals(t) ==
    [pc |-> "start", text |-> t, iteration |-> 0, tool_call |-> NoToolCall,
     query |-> "", query_embedding |-> << >>, outcome |-> "none",
     result |-> << >>, answers |-> << >>]

EmptyStore == [messages |-> << >>, all_matched_products |-> << >>]

Answer(call, kind, arguments, keys, results) ==
    [call |-> call, kind |-> kind, arguments |-> arguments, keys |-> keys,
     results |-> results]

Ended(c, m, end, answer) ==
    [ctl |-> [c EXCEPT !.pc = "done", !.outcome = end.outcome,
                       !.result = end.result,
                       !.answers = Append(@, answer)],
     store |-> m]

ToolCallEnded(c, m, search_results, answer) ==
    LET found == TagContext(search_results, c.query)
    IN [ctl |-> [c EXCEPT !.pc = NextCall(0), !.tool_call = NoToolCall,
                          !.query = "", !.query_embedding = << >>,
                          !.answers = Append(@, answer)],
        store |-> [messages |-> m.messages \o
                                   <<AssistantMessage(c.tool_call),
                                     ToolMessage(c.tool_call, found)>>,
                   all_matched_products |->
                       AccumulatorAppend(m.all_matched_products, found)]]

ValidateSteps(c, m) ==
    IF c.pc # "start" THEN {}
    ELSE IF IsEmptyText(c.text)
    THEN {[ctl |-> [c EXCEPT !.pc = "done", !.outcome = "ValueError"],
           store |-> m]}
    ELSE {[ctl |-> [c EXCEPT !.pc = "loop", !.iteration = 0],
           store |-> [messages |-> <<SystemMessage, UserMessage(c.text)>>,
                      all_matched_products |->
                          FreshAccumulator(m.all_matched_products)]]}

ChatSteps(c, m) ==
    IF c.pc # "loop" THEN {}
    ELSE IF ~(c.iteration < max_iterations)
    THEN {Ended(c, m, FromAccumulator(m.all_matched_products, c.text, "none"),
                Answer("none", "cap", "", {}, << >>))}
    ELSE LET n == [c EXCEPT !.iteration = NextIteration(@)]
         IN {[ctl |-> [n EXCEPT !.pc = "embed",
                                !.tool_call =
                                    WithId([name |-> "search_products",
                                            arguments |-> a], m.messages),
                                !.query = ArgsGetQuery(ArgsLoads(a)),
                                !.answers =
                                    Append(@, Answer("chat", "tool_call", a,
                                                     {}, << >>))],
              store |-> m] : a \in {x \in TwoArguments :
                                        c.iteration < MaxRounds}}
            \cup {Ended(n, m,
                        FinalAnswer(result_data, m.all_matched_products,
                                    c.text),
                        Answer("chat", "final", "", result_data.keys,
                               << >>)) :
                     result_data \in TwoFinals}
            \cup {Ended(n, m, ChatRaised(m.all_matched_products, c.text),
                        Answer("chat", "raised", "", {}, << >>))}

EmbedSteps(c, m) ==
    IF c.pc # "embed" THEN {}
    ELSE {[ctl |-> [c EXCEPT !.pc = "search",
                             !.query_embedding = <<c.query>>,
                             !.answers =
                                 Append(@, Answer("embed", "embedding", "",
                                                  {}, << >>))],
           store |-> m],
          ToolCallEnded(c, m, SearchExcept.results,
                        Answer("embed", "raised", "", {}, << >>))}

SearchSteps(c, m) ==
    IF c.pc # "search" THEN {}
    ELSE {ToolCallEnded(c, m, FilterResults(search_results),
                        Answer("search", "results", "", {},
                               search_results)) :
             search_results \in TwoSearchResults}
         \cup {ToolCallEnded(c, m, SearchExcept.results,
                             Answer("search", "raised", "", {}, << >>))}

RunSteps(c, m) ==
    ValidateSteps(c, m) \cup ChatSteps(c, m) \cup EmbedSteps(c, m)
        \cup SearchSteps(c, m)

InitTwo ==
    /\ text = << >>
    /\ pc = "two"
    /\ RunIdle
    /\ SearchIdle
    /\ FinalIdle
    /\ ModelsIdle
    /\ BatchIdle
    /\ IndexIdle
    /\ t_runs \in [Threads -> {InitialLocals(t) : t \in TwoTexts}]
    /\ t_store = [i \in Threads |-> EmptyStore]

Taken(i, n) ==
    /\ t_runs' = [t_runs EXCEPT ![i] = n.ctl]
    /\ t_store' = [t_store EXCEPT ![Owner(i)] = n.store]
    /\ UNCHANGED <<run_vars, instance_vars, search_vars, final_vars,
                   models_vars, batch_vars, index_vars>>

TwoValidate ==
    \E i \in Threads :
       \E n \in ValidateSteps(t_runs[i], t_store[Owner(i)]) : Taken(i, n)

TwoChat ==
    \E i \in Threads :
       \E n \in ChatSteps(t_runs[i], t_store[Owner(i)]) : Taken(i, n)

TwoEmbed ==
    \E i \in Threads :
       \E n \in EmbedSteps(t_runs[i], t_store[Owner(i)]) : Taken(i, n)

TwoSearch ==
    \E i \in Threads :
       \E n \in SearchSteps(t_runs[i], t_store[Owner(i)]) : Taken(i, n)

NextTwo ==
    \/ TwoValidate
    \/ TwoChat
    \/ TwoEmbed
    \/ TwoSearch

SpecTwo == InitTwo /\ [][NextTwo]_vars

(***************************************************************************)
(* The runs of process_transcript together with the direct constructions   *)
(* of models.py.                                                           *)
(***************************************************************************)
InitRunOrModels == Init \/ InitModels

NextRunOrModels == Next \/ NextModels

SpecRunOrModels == InitRunOrModels /\ [][NextRunOrModels]_vars

(***************************************************************************)
(* Properties.                                                             *)
(***************************************************************************)
IsBlank(t) == \A i \in 1..Len(t) : t[i] = " "

RECURSIVE ToolResults(_)
ToolResults(ms) ==
    IF ms = << >> THEN << >>
    ELSE (IF Head(ms).role = "tool" THEN Head(ms).content ELSE << >>)
         \o ToolResults(Tail(ms))

FlagsFalse(r) == ~r.competitor_advantage_mentioned /\ ~r.bad_placement_mentioned

(* C1: a transcript that is empty or whitespace only ends the run with     *)
(* ValueError, and no model, embedding or search call has been made.       *)
C1_BlankTranscriptRejected ==
    (IsBlank(text) /\ pc # "start") =>
        /\ pc = "done"
        /\ outcome = "ValueError"
        /\ result = << >>
        /\ chat_calls = 0
        /\ embed_calls = 0
        /\ search_calls = 0

C1_Witness == text = <<" ">> /\ pc = "done" /\ outcome = "ValueError"

(* C2: a run never makes more than 10 calls to the language model.         *)
C2_AtMostTenModelCalls == chat_calls <= 10

C2_Witness == chat_calls = 10 /\ tool_rounds = 10 /\ pc = "loop"

(* C3: the candidates of one search are exactly the results with score     *)
(* >= 0.7, in their original order, each with the result's product name    *)
(* and the score rounded to 2 decimals, and with no other field.           *)
IsRounded2(c, x) == c % 10 = 0 /\ c - x <= 5 /\ x - c <= 5

C3_Kept == {i \in 1..Len(s_results) : s_results[i].score >= 700}

C3_CandidatesAreFilteredResults ==
    s_out # << >> =>
        LET out == s_out[1]
        IN /\ Len(out) = Cardinality(C3_Kept)
           /\ \A i \in C3_Kept :
                 LET k == Cardinality({j \in C3_Kept : j <= i})
                 IN /\ DOMAIN out[k] = {"product_name", "confidence"}
                    /\ out[k].product_name = s_results[i].product_name
                    /\ IsRounded2(out[k].confidence, s_results[i].score)

C3_Witness ==
    /\ s_out # << >>
    /\ Len(s_results) = 3
    /\ s_results[1].score = 850
    /\ s_results[2].score = 500
    /\ s_results[3].score = 700
    /\ Len(s_out[1]) = 2

(* C4: after tool-call rounds that yielded candidates, a final message     *)
(* whose JSON object has no matched_products gives a result whose          *)
(* matched_products is the concatenation, in invocation order, of the      *)
(* candidates kept for each invocation.                                    *)
C4_ResultIsConcatenation ==
    (pc = "done" /\ outcome = "result" /\ response = "final"
       /\ parsed = "dict" /\ ToolResults(messages) # << >>) =>
        result[1].matched_products = ToolResults(messages)

C4_Witness ==
    /\ pc = "done" /\ outcome = "result" /\ parsed = "dict"
    /\ tool_rounds = 2
    /\ Len(result[1].matched_products) = 2
    /\ result[1].matched_products[1] # result[1].matched_products[2]

(* C5: a final message that cannot be parsed as JSON still gives a result: *)
(* the matches of the accumulator, and both flags false.                   *)
C5_UnparsableFinalGivesResult ==
    (pc = "done" /\ response = "final" /\ parsed = "failed") =>
        /\ outcome = "result"
        /\ Len(result) = 1
        /\ result[1].matched_products = ToolResults(messages)
        /\ FlagsFalse(result[1])

(* C6: when all 10 responses asked for tool calls the run returns a result *)
(* built from the accumulator, with both flags false, and does not raise.  *)
C6_CapGivesResult ==
    (pc = "done" /\ tool_rounds = 10) =>
        /\ outcome = "result"
        /\ Len(result) = 1
        /\ result[1].matched_products = ToolResults(messages)
        /\ FlagsFalse(result[1])

(* C7: when the embedding call or the search call throws, the run does not *)
(* end: the accumulator is unchanged, the tool message holds an empty      *)
(* list, and the loop goes to the next tool call or the next model call.   *)
C7_SearchFailureIsLocal ==
    [][(pc \in {"embed", "search"}
          /\ search_status' \in {"embed_raised", "search_raised"}) =>
        /\ outcome' = "none"
        /\ all_matched_products' = all_matched_products
        /\ Len(messages') = Len(messages) + 2
        /\ SubSeq(messages', 1, Len(messages)) = messages
        /\ messages'[Len(messages') - 1].role = "assistant"
        /\ messages'[Len(messages')].role = "tool"
        /\ messages'[Len(messages')].content = << >>
        /\ remaining' = remaining - 1
        /\ pc' = (IF remaining > 1 THEN "tools" ELSE "loop")]_vars

C7_Witness ==
    /\ search_status = "search_raised"
    /\ pc = "tools"
    /\ outcome = "none"
    /\ all_matched_products # << >>

(* C8: when the model call throws, the run ends with that exception and    *)
(* no result, whatever the accumulator holds.                              *)
C8_ModelFailurePropagates ==
    response = "raised" =>
        /\ pc = "done"
        /\ outcome = "ModelError"
        /\ result = << >>

C8_Witness ==
    /\ response = "raised"
    /\ iteration >= 2
    /\ all_matched_products # << >>
    /\ search_calls >= 1

(* C9: a run ends with a result, with ValueError, or with the exception of *)
(* a model call, and in no other way.                                      *)
C9_OnlyThreeOutcomes ==
    pc = "done" => outcome \in {"result", "ValueError", "ModelError"}

(* C10: no tool call ends the run: whatever its arguments text, the        *)
(* loop goes on with the other calls.                                      *)
C10_NoToolCallAborts == raised_at # "tool_call"

(***************************************************************************)
(* The final message as a reader sees it: it holds one JSON object when it *)
(* has exactly one opening and one closing brace, in this order, with only *)
(* members between them; it is JSON when it holds one object or is the     *)
(* literal null.                                                           *)
(***************************************************************************)
ObjectAt(c, i, j) ==
    /\ i < j
    /\ c[i] = "{"
    /\ c[j] = "}"
    /\ \A k \in 1..Len(c) :
          IF k = i \/ k = j THEN TRUE
          ELSE IF i < k /\ k < j THEN c[k] \in {"c", "b", "m", "w"}
          ELSE c[k] \notin {"{", "}"}

HoldsObject(c) == \E i, j \in 1..Len(c) : ObjectAt(c, i, j)

ObjectMembers(c) ==
    LET i == CHOOSE i \in 1..Len(c) : c[i] = "{"
        j == CHOOSE j \in 1..Len(c) : c[j] = "}"
    IN SubSeq(c, i + 1, j - 1)

HasMember(c, t) == \E k \in 1..Len(ObjectMembers(c)) : ObjectMembers(c)[k] = t

(* The matched_products array of the object, as written by the model. *)
WrittenProducts(c) ==
    LET ms == ObjectMembers(c)
        lists == {k \in 1..Len(ms) : ms[k] \in {"m", "w"}}
    IN IF lists = {} THEN << >>
       ELSE IF ms[CHOOSE k \in lists : \A l \in lists : l <= k] = "m"
       THEN <<JsonEntryM, JsonEntryR>>
       ELSE <<JsonEntryW>>

IsJson(c) == HoldsObject(c) \/ c = <<"n">>

FinalEnded == f_out # << >> /\ f_out[1].path = "final"

FinalReturned == FinalEnded /\ f_out[1].end.outcome = "result"

(***************************************************************************)
(* C11: when the final message parses as JSON and the accumulator is not   *)
(* empty, the returned matched_products is the accumulator, entry for      *)
(* entry and in order; the matched_products of the message are not read,   *)
(* so a final object returns a result whatever its own entries are, as     *)
(* long as the accumulator holds confidences MatchedProduct accepts.       *)
(***************************************************************************)
C11_AccumulatorWins ==
    (FinalEnded /\ IsJson(f_content) /\ f_acc # << >>) =>
        /\ f_out[1].end.outcome = "result" =>
               f_out[1].end.result[1].matched_products = f_acc
        /\ (HoldsObject(f_content)
                /\ \A i \in 1..Len(f_acc) : f_acc[i].confidence <= 1000) =>
               f_out[1].end.outcome = "result"

C11_Witness ==
    /\ FinalReturned
    /\ HoldsObject(f_content)
    /\ HasMember(f_content, "w")
    /\ Len(f_acc) = 2
    /\ f_out[1].end.result[1].matched_products = f_acc

(***************************************************************************)
(* C12 as stated: when the final message holds a JSON object and the       *)
(* accumulator is empty, the returned matched_products is the object's     *)
(* matched_products array as the model wrote it (empty without the key).   *)
(***************************************************************************)
C12_JsonListReturnedAsWritten ==
    (FinalReturned /\ HoldsObject(f_content) /\ f_acc = << >>) =>
        f_out[1].end.result[1].matched_products = WrittenProducts(f_content)

(***************************************************************************)
(* C12 amended: when the final message holds a JSON object and the         *)
(* accumulator is empty, the returned matched_products has one entry per   *)
(* entry of the object's matched_products array, in order, with the same   *)
(* product_name and context and the confidence rounded to two decimals;    *)
(* it is empty when the object has no such key.                            *)
(***************************************************************************)
C12_JsonListReturnedRounded ==
    (FinalReturned /\ HoldsObject(f_content) /\ f_acc = << >>) =>
        LET mp == f_out[1].end.result[1].matched_products
            written == WrittenProducts(f_content)
        IN /\ Len(mp) = Len(written)
           /\ \A i \in 1..Len(written) :
                 /\ mp[i].product_name = written[i].product_name
                 /\ mp[i].context = written[i].context
                 /\ IsRounded2(mp[i].confidence, written[i].confidence)

C12_Witness ==
    /\ FinalReturned
    /\ f_acc = << >>
    /\ f_content = <<"{", "m", "}">>
    /\ Len(f_out[1].end.result[1].matched_products) = 2
    /\ f_out[1].end.result[1].matched_products[2].confidence = 860

ReturnedConfidence(candidate) ==
    MatchedProduct([product_name |-> candidate.product_name,
                    confidence |-> candidate.confidence,
                    context |-> "q1"]).confidence

(***************************************************************************)
(* C14 as stated: for every retained candidate the confidence, in the      *)
(* accumulator and in the returned MatchedProduct, is never greater than   *)
(* the similarity score the vector search produced for it.                 *)
(***************************************************************************)
C14_ConfidenceNeverAboveScore ==
    s_out # << >> =>
        \A i \in C3_Kept :
            LET k == Cardinality({j \in C3_Kept : j <= i})
            IN /\ s_out[1][k].confidence <= s_results[i].score
               /\ ReturnedConfidence(s_out[1][k]) <= s_results[i].score

(***************************************************************************)
(* C14 amended: for every retained candidate the confidence, in the        *)
(* accumulator and in the returned MatchedProduct, is the score rounded to *)
(* two decimals, so it is never greater than the score by more than 0.005. *)
(***************************************************************************)
C14_ConfidenceAtMostHalfCentAbove ==
    s_out # << >> =>
        \A i \in C3_Kept :
            LET k == Cardinality({j \in C3_Kept : j <= i})
            IN /\ s_out[1][k].confidence <= s_results[i].score + 5
               /\ ReturnedConfidence(s_out[1][k]) = s_out[1][k].confidence

C14_Witness ==
    /\ s_out # << >>
    /\ Len(s_results) = 1
    /\ s_results[1].score = 857
    /\ Len(s_out[1]) = 1
    /\ s_out[1][1].confidence = 860

(***************************************************************************)
(* C15 as stated: on every return path no returned MatchedProduct has a    *)
(* confidence below the threshold.                                         *)
(***************************************************************************)
C15_NoMatchBelowThreshold ==
    (pc = "done" /\ outcome = "result") =>
        \A i \in 1..Len(result[1].matched_products) :
            result[1].matched_products[i].confidence >= 700

(***************************************************************************)
(* C15 amended: on every return path that does not take the list from the  *)
(* final JSON (the JSON is read only when it parsed as an object and the   *)
(* accumulator is empty), each returned MatchedProduct is a candidate      *)
(* posted as a tool result and its confidence is not below the threshold.  *)
(***************************************************************************)
C15_SearchMatchesPassThreshold ==
    (pc = "done" /\ outcome = "result"
       /\ ~(response = "final" /\ parsed \in {"dict", "dict_products"}
               /\ all_matched_products = << >>)) =>
        \A i \in 1..Len(result[1].matched_products) :
            /\ result[1].matched_products[i].confidence >= 700
            /\ \E k \in 1..Len(ToolResults(messages)) :
                  ToolResults(messages)[k] = result[1].matched_products[i]

C15_Witness ==
    /\ pc = "done" /\ outcome = "result"
    /\ response = "final" /\ parsed = "dict_products"
    /\ Len(result[1].matched_products) = 2
    /\ result[1].matched_products[1].confidence = 920

(***************************************************************************)
(* C16: constructing a MatchedProduct succeeds exactly for a confidence in *)
(* [0, 1] (1.5 fails with a validation error), and the constructed object  *)
(* carries a confidence in [0, 1] that is a multiple of 0.01 nearest to    *)
(* the given one (0.857 is stored as 0.86).                                *)
(***************************************************************************)
C16_ConfidenceInRangeAndRounded ==
    (m_out # << >> /\ m_out[1].model = "MatchedProduct") =>
        IF 0 <= m_conf /\ m_conf <= 1000
        THEN /\ m_out[1].status = "ok"
             /\ Len(m_out[1].value) = 1
             /\ m_out[1].value[1].confidence \in 0..1000
             /\ IsRounded2(m_out[1].value[1].confidence, m_conf)
        ELSE /\ m_out[1].status = "ValidationError"
             /\ m_out[1].value = << >>

C16_Witness ==
    /\ m_out # << >>
    /\ m_out[1].model = "MatchedProduct"
    /\ m_conf = 857
    /\ m_out[1].status = "ok"
    /\ m_out[1].value[1].confidence = 860

(***************************************************************************)
(* C17: constructing a ProcessingResult fails with a validation error      *)
(* exactly when raw_text is empty or only whitespace; inside               *)
(* process_transcript the transcript is not blank once the first check is  *)
(* passed, so a validation error that ends a run comes from a confidence   *)
(* out of range, never from raw_text.                                      *)
(***************************************************************************)
C17_RawTextNeverFailsInRun ==
    /\ (m_out # << >> /\ m_out[1].model = "ProcessingResult") =>
           /\ (m_out[1].status = "ValidationError") = IsBlank(text)
           /\ m_out[1].status \in {"ok", "ValidationError"}
           /\ m_out[1].status = "ok" => m_out[1].value[1].raw_text = text
    /\ pc \in {"loop", "tools", "embed", "search"} => ~IsBlank(text)
    /\ (pc = "done" /\ outcome = "result") => ~IsBlank(result[1].raw_text)
    /\ (pc = "done" /\ outcome = "ValidationError") =>
           /\ ~IsBlank(text)
           /\ \/ \E i \in 1..Len(all_matched_products) :
                    all_matched_products[i].confidence > 1000
              \/ all_matched_products = << >> /\ parsed = "dict_products"

C17_Witness ==
    /\ m_out # << >>
    /\ m_out[1].model = "ProcessingResult"
    /\ text = <<" ">>
    /\ m_out[1].status = "ValidationError"

(***************************************************************************)
(* C18: on every return path (parsed final message, unparsable final       *)
(* message, iteration cap) raw_text of the result is the transcript as     *)
(* passed in, character for character, surrounding whitespace included.    *)
(***************************************************************************)
C18_RawTextIsTranscript ==
    (f_out # << >> /\ f_out[1].end.outcome = "result") =>
        f_out[1].end.result[1].raw_text = text

C18_Witness ==
    /\ f_out # << >>
    /\ f_out[1].path = "cap"
    /\ f_out[1].end.outcome = "result"
    /\ text = <<" ", "a">>
    /\ f_out[1].end.result[1].raw_text = <<" ", "a">>

(* The query an arguments text carries, as a reader sees it. *)
WrittenQuery(arguments) ==
    CASE arguments = "{query:q1}" -> "q1"
      [] arguments = "{query:q2}" -> "q2"
      [] OTHER -> ""

(***************************************************************************)
(* C19: the accumulator is the concatenation of the lists posted as tool   *)
(* results, and every entry of such a list has for context the query       *)
(* written in the arguments of the invocation the list answers; a run of   *)
(* one invocation with query Q that finds one candidate of score 0.92      *)
(* returns one MatchedProduct of confidence 0.92 and context Q.            *)
(***************************************************************************)
C19_ContextIsInvocationQuery ==
    /\ all_matched_products = ToolResults(messages)
    /\ \A k \in 1..Len(messages) :
          messages[k].role = "tool" =>
              /\ messages[k - 1].role = "assistant"
              /\ \A e \in 1..Len(messages[k].content) :
                    messages[k].content[e].context =
                        WrittenQuery(messages[k - 1].tool_calls[1].arguments)
    /\ (pc = "done" /\ outcome = "result" /\ parsed = "dict") =>
           result[1].matched_products = all_matched_products

C19_Witness ==
    /\ pc = "done" /\ outcome = "result"
    /\ Len(messages) = 6
    /\ messages[3].tool_calls[1].arguments = "{query:q2}"
    /\ messages[5].tool_calls[1].arguments = "{query:q1}"
    /\ result[1].matched_products =
           <<[product_name |-> "p1", confidence |-> 920, context |-> "q2"],
             [product_name |-> "p1", confidence |-> 920, context |-> "q1"]>>

(***************************************************************************)
(* C20: an invocation of search_products whose arguments have no query key *)
(* or an empty query is searched with the query "", and the step that      *)
(* follows is no error: the embedding service refuses the text without     *)
(* calling its API, no vector search is made, the accumulator is           *)
(* unchanged, the empty list is posted as the tool result and the run      *)
(* goes on.                                                                *)
(***************************************************************************)
C20_EmptyQueryIsNoError ==
    [][(pc = "embed" /\ tool_call.arguments \in {"{}", "{query:}"}) =>
          /\ query = ""
          /\ embed_api_calls' = embed_api_calls
          /\ search_calls' = search_calls
          /\ pc' \in {"tools", "loop"}
          /\ outcome' = "none"
          /\ all_matched_products' = all_matched_products
          /\ Len(messages') = Len(messages) + 2
          /\ messages'[Len(messages')].role = "tool"
          /\ messages'[Len(messages')].content = << >>
          /\ messages'[Len(messages') - 1].tool_calls[1] = tool_call]_vars

C20_Witness ==
    /\ pc = "loop"
    /\ outcome = "none"
    /\ Len(messages) = 6
    /\ messages[3].tool_calls[1].arguments = "{}"
    /\ messages[5].tool_calls[1].arguments = "{query:}"
    /\ messages[4].content = << >>
    /\ messages[6].content = << >>
    /\ embed_calls = 2
    /\ embed_api_calls = 0
    /\ search_calls = 0
    /\ all_matched_products = << >>

(***************************************************************************)
(* C21: every tool-result message of the conversation holds a list of      *)
(* objects with exactly the fields product_name and confidence.            *)
(***************************************************************************)
C21_ToolResultHasDeclaredShape ==
    \A k \in 1..Len(messages) :
        messages[k].role = "tool" =>
            \A e \in 1..Len(messages[k].content) :
                DOMAIN messages[k].content[e] = {"product_name", "confidence"}

(***************************************************************************)
(* C22: when one instance processes transcripts one after the other, each  *)
(* run starts its loop with an empty accumulator, the iteration counter 0  *)
(* and the conversation [system, user turn of its own transcript],         *)
(* whatever the previous run left; the matches it returns are its own      *)
(* tool results or the entries of its own final message; and no step       *)
(* changes a field of the instance.                                        *)
(***************************************************************************)
C22_NoStateAcrossCalls ==
    [][/\ instance' = instance
       /\ (pc = "start" /\ pc' = "loop") =>
             /\ all_matched_products' = << >>
             /\ iteration' = 0
             /\ messages' = <<SystemMessage, UserMessage(text')>>
       /\ (pc' = "done" /\ outcome' = "result") =>
             \/ result'[1].matched_products = ToolResults(messages')
             \/ /\ ToolResults(messages') = << >>
                /\ parsed' = "dict_products"
                /\ response' = "final"]_vars

C22_Witness ==
    /\ pc = "start"
    /\ text = <<"a">>
    /\ Len(messages) = 4
    /\ messages[2].content.text = <<"a">>
    /\ all_matched_products # << >>
    /\ chat_calls = 0

(***************************************************************************)
(* C23: before each model call after the first, every tool invocation      *)
(* requested by an earlier response, whatever its function name, has its   *)
(* assistant message and, right after it, its tool-result message in the   *)
(* conversation.  Every such response requests at least one invocation,    *)
(* so the conversation then holds at least one such pair of messages for   *)
(* each response that requested invocations, after its first two messages. *)
(***************************************************************************)
C23_EveryInvocationAnswered ==
    (pc = "loop" /\ tool_rounds >= 1) =>
        /\ Len(messages) >= 2 + 2 * tool_rounds
        /\ \A k \in 3..Len(messages) :
              IF k % 2 = 1
              THEN messages[k].role = "assistant"
              ELSE /\ messages[k].role = "tool"
                   /\ messages[k].name = messages[k - 1].tool_calls[1].name

IsPrefix(s, t) == Len(s) <= Len(t) /\ SubSeq(t, 1, Len(s)) = s

(***************************************************************************)
(* C24: within a run the conversation starts as [system instruction, user  *)
(* turn with the transcript]; every later step leaves it as it is or       *)
(* appends messages at its end, so that the earlier conversation is a      *)
(* prefix of the later one; and every call of the model is made with the   *)
(* whole conversation built so far, which the call itself does not change. *)
(***************************************************************************)
C24_ConversationAppendOnly ==
    [][/\ (pc = "start" /\ pc' = "loop") =>
             messages' = <<[role |-> "system", content |-> "SYSTEM_PROMPT"],
                           [role |-> "user",
                            content |-> [prefix |-> "Analyzuj tento transkript:",
                                         text |-> text]]>>
       /\ pc # "start" => IsPrefix(messages, messages')
       /\ chat_calls' = chat_calls + 1 =>
             /\ last_call'.service = "chat"
             /\ last_call'.request.messages = messages
             /\ messages' = messages]_vars

C24_Witness ==
    /\ last_call.service = "chat"
    /\ Len(messages) = 6
    /\ last_call.request.messages = messages
    /\ chat_calls = 3

(***************************************************************************)
(* C25: a run does not end after a response that requested tool            *)
(* invocations unless 10 model calls have been made (the next model call   *)
(* is issued), and after a response without tool invocations the run is    *)
(* over and has returned a result.                                         *)
(***************************************************************************)
C25_ToolRoundContinuesFinalReturns ==
    /\ (pc = "done" /\ response = "tool_calls") => chat_calls = 10
    /\ response = "final" => (pc = "done" /\ outcome = "result")

(***************************************************************************)
(* C26: the invocations of a response are resolved one at a time, in the   *)
(* order the loop takes them.  An embedding or search call is made only    *)
(* for the one invocation in progress; a step of that invocation either    *)
(* leaves the accumulator and the conversation alone or completes the      *)
(* invocation by accumulating its candidates and appending its two         *)
(* messages; an invocation starts only when none is in progress; and the   *)
(* model is called only when no invocation of the response is left.        *)
(***************************************************************************)
C26_InvocationsOneAtATime ==
    [][/\ embed_calls' # embed_calls =>
             /\ pc = "embed"
             /\ embed_calls' = embed_calls + 1
             /\ last_call'.request.text = WrittenQuery(tool_call.arguments)
       /\ search_calls' # search_calls =>
             /\ pc = "search"
             /\ search_calls' = search_calls + 1
             /\ last_call'.request.query_vector =
                   <<WrittenQuery(tool_call.arguments)>>
       /\ pc \in {"embed", "search"} =>
             \/ /\ pc' = "search"
                /\ messages' = messages
                /\ all_matched_products' = all_matched_products
                /\ tool_call' = tool_call
                /\ remaining' = remaining
             \/ /\ pc' \in {"tools", "loop"}
                /\ Len(messages') = Len(messages) + 2
                /\ messages'[Len(messages') - 1].tool_calls = <<tool_call>>
                /\ all_matched_products' =
                      all_matched_products \o messages'[Len(messages')].content
                /\ tool_call' = NoToolCall
                /\ remaining' = remaining - 1
       /\ pc' = "embed" =>
             /\ pc = "tools"
             /\ tool_call = NoToolCall
             /\ remaining > 0
       /\ chat_calls' # chat_calls =>
             /\ pc = "loop"
             /\ remaining = 0
             /\ tool_call = NoToolCall]_vars

C26_Witness ==
    /\ pc = "search"
    /\ remaining = 2
    /\ Len(messages) = 4
    /\ tool_call.arguments = "{query:q2}"
    /\ messages[3].tool_calls[1].arguments = "{query:q1}"
    /\ search_calls = 1
    /\ embed_calls = 2
    /\ chat_calls = 2

(***************************************************************************)
(* C27: resolving one search_products invocation makes one embedding call  *)
(* and at most one vector search call, in this order.  The search is made  *)
(* right after the embedding call returned, with the embedding returned    *)
(* for the query and top_k = 3; when the embedding call throws the         *)
(* invocation completes without a search call.                             *)
(***************************************************************************)
C27_OneEmbeddingThenOneSearch ==
    [][/\ pc \in {"loop", "tools", "embed", "search"} =>
             LET resolved == (Len(messages) - 2) \div 2
             IN /\ embed_calls = resolved + (IF pc = "search" THEN 1 ELSE 0)
                /\ search_calls <= resolved
       /\ search_calls' # search_calls =>
             /\ search_calls' = search_calls + 1
             /\ embed_calls' = embed_calls
             /\ last_call.service = "embed"
             /\ last_call.request.text = query
             /\ query_embedding = <<query>>
             /\ last_call'.service = "search"
             /\ last_call'.request.query_vector = query_embedding
             /\ last_call'.request.top_k = 3
       /\ (pc = "embed" /\ pc' # "search") =>
             /\ search_calls' = search_calls
             /\ tool_call' = NoToolCall
             /\ Len(messages') = Len(messages) + 2]_vars

C27_Witness ==
    /\ last_call.service = "search"
    /\ last_call.request.top_k = 3
    /\ last_call.request.query_vector = <<"q1">>
    /\ Len(messages) = 6
    /\ embed_calls = 2
    /\ search_calls = 1
    /\ embed_api_calls = 2

(***************************************************************************)
(* C28: a JSON object between the first opening and the last closing brace *)
(* of the final message, prose around it or not, is parsed and its flags   *)
(* are returned; a final message without braces that is JSON as a whole    *)
(* but not an object (null) gives a result with the matches of the         *)
(* accumulator and both flags false.  Accumulators are those all of whose  *)
(* confidences MatchedProduct accepts.                                     *)
(***************************************************************************)
C28_FinalAnswerLocated ==
    (FinalEnded /\ \A i \in 1..Len(f_acc) : f_acc[i].confidence <= 1000) =>
        /\ (HoldsObject(f_content)
               /\ (f_acc # << >> \/ ~HasMember(f_content, "w"))) =>
              /\ f_out[1].end.outcome = "result"
              /\ f_out[1].end.result[1].competitor_advantage_mentioned
                    = HasMember(f_content, "c")
              /\ f_out[1].end.result[1].bad_placement_mentioned
                    = HasMember(f_content, "b")
        /\ f_content = <<"n">> =>
              /\ f_out[1].end.outcome = "result"
              /\ f_out[1].end.result[1].matched_products = f_acc
              /\ ~f_out[1].end.result[1].competitor_advantage_mentioned
              /\ ~f_out[1].end.result[1].bad_placement_mentioned

(***************************************************************************)
(* C29: in every step of a run the accumulator before the step is a prefix *)
(* of the accumulator after it; a query that fails or keeps no candidate   *)
(* leaves the accumulator as it was; and a result returned with a          *)
(* non-empty accumulator carries every entry of the accumulator, which is  *)
(* every candidate posted as a tool result.                                *)
(***************************************************************************)
C29_AccumulatorAppendOnly ==
    [][/\ IsPrefix(all_matched_products, all_matched_products')
       /\ (Len(messages') = Len(messages) + 2
             /\ messages'[Len(messages')].content = << >>) =>
             all_matched_products' = all_matched_products
       /\ (pc' = "done" /\ outcome' = "result"
             /\ all_matched_products' # << >>) =>
             /\ result'[1].matched_products = all_matched_products'
             /\ result'[1].matched_products = ToolResults(messages')]_vars

C29_Witness ==
    /\ pc = "done" /\ outcome = "result"
    /\ Len(messages) = 6
    /\ messages[4].content # << >>
    /\ messages[6].content = << >>
    /\ messages[5].tool_calls[1].arguments = "{query:q2}"
    /\ result[1].matched_products = messages[4].content

(***************************************************************************)
(* C30: every run of process_transcript ends.  Each call of a collaborator *)
(* returns or throws and each local step is taken, which is weak fairness  *)
(* of the steps of the run; a response carries at most MaxCalls             *)
(* invocations.  A run ends at the latest when the loop guard of line 188  *)
(* fails after the 10th response, with no 11th call of the model.          *)
(***************************************************************************)
C30_RunTerminates ==
    /\ <>(pc = "done")
    /\ [](chat_calls <= max_iterations)

C30_Witness ==
    /\ pc = "done"
    /\ chat_calls = max_iterations
    /\ tool_rounds = max_iterations
    /\ iteration = max_iterations
    /\ response = "tool_calls"

(***************************************************************************)
(* C31: a run that returns has constructed exactly one ProcessingResult, a *)
(* run that raises has constructed none, and while a model, embedding or   *)
(* search call can still follow none has been constructed: the result is   *)
(* constructed in the step that ends the run, after the last call.         *)
(***************************************************************************)
C31_OneResultAtTheEnd ==
    /\ (pc = "done" /\ outcome = "result") => Len(result) = 1
    /\ (pc = "done" /\ outcome # "result") => result = << >>
    /\ pc # "done" => result = << >>

C31_Witness ==
    /\ pc = "done" /\ outcome = "result"
    /\ Len(result) = 1
    /\ chat_calls >= 2
    /\ embed_calls >= 1
    /\ search_calls >= 1

(***************************************************************************)
(* C33: the invocations of the 10th response are resolved like those of    *)
(* any other.  The loop returns to its guard only when no invocation of    *)
(* the response is left; an invocation completed after the 10th response   *)
(* appends its candidates to the accumulator and its assistant and tool    *)
(* messages to the conversation, with no model call; and the result        *)
(* returned at the cap carries every candidate posted as a tool result.    *)
(***************************************************************************)
C33_LastRoundResolved ==
    /\ [](pc = "loop" => remaining = 0)
    /\ [][/\ (iteration = max_iterations /\ pc \in {"embed", "search"}
                /\ pc' \in {"tools", "loop"}) =>
                 /\ Len(messages') = Len(messages) + 2
                 /\ messages'[Len(messages') - 1] = AssistantMessage(tool_call)
                 /\ messages'[Len(messages')].role = "tool"
                 /\ all_matched_products' =
                        all_matched_products \o messages'[Len(messages')].content
                 /\ chat_calls' = chat_calls
          /\ (pc = "loop" /\ iteration = max_iterations
                /\ pc' = "done" /\ outcome' = "result") =>
                 /\ chat_calls' = chat_calls
                 /\ result'[1].matched_products = ToolResults(messages)
                 /\ result'[1].matched_products = all_matched_products]_vars

C33_Witness ==
    /\ iteration = max_iterations
    /\ tool_rounds = max_iterations
    /\ pc = "loop"
    /\ search_status = "ok"
    /\ Len(messages) = 4
    /\ messages[4].content # << >>
    /\ all_matched_products = messages[4].content

(***************************************************************************)
(* C34: a final message given as the 10th response ends the run in one of  *)
(* the ways a final message ends it after any other response, with the     *)
(* same accumulator and transcript: the flags are the ones of its JSON.    *)
(* The return of lines 305-323, with both flags false, happens only after  *)
(* 10 responses that all carried tool calls.                               *)
(***************************************************************************)
C34_TenthFinalHonoured ==
    /\ (pc = "done" /\ response = "final" /\ chat_calls = max_iterations) =>
          /\ tool_rounds = max_iterations - 1
          /\ [outcome |-> outcome, result |-> result, parsed |-> parsed]
                \in FinalAnswers(all_matched_products, text)
    /\ (pc = "done" /\ response = "tool_calls"
          /\ raised_at \in {"none", "cap"}) =>
          /\ tool_rounds = max_iterations
          /\ chat_calls = max_iterations
          /\ outcome = "result" => FlagsFalse(result[1])

C34_Witness ==
    /\ pc = "done" /\ response = "final" /\ outcome = "result"
    /\ chat_calls = max_iterations
    /\ tool_rounds = max_iterations - 1
    /\ result[1].competitor_advantage_mentioned
    /\ ~result[1].bad_placement_mentioned
    /\ result[1].matched_products # << >>

(***************************************************************************)
(* C35: an invocation of a function other than search_products makes no    *)
(* embedding call and no search call and leaves the accumulator and the    *)
(* conversation as they were: only invocations of search_products reach    *)
(* the embedding and the search and are written into the conversation,     *)
(* and a step of the loop over the invocations that starts no search       *)
(* changes none of them.  When no embedding or search call was made since  *)
(* the previous model call, the model receives the same conversation       *)
(* again.                                                                  *)
(***************************************************************************)
C35_OtherFunctionIsNoOp ==
    /\ [](/\ pc \in {"embed", "search"} => tool_call.name = "search_products"
          /\ \A i \in 1..Len(messages) :
                /\ messages[i].role = "tool" =>
                      messages[i].name = "search_products"
                /\ messages[i].role = "assistant" =>
                      messages[i].tool_calls[1].name = "search_products")
    /\ [][/\ (pc = "tools" /\ pc' \in {"tools", "loop"}) =>
                /\ embed_calls' = embed_calls
                /\ embed_api_calls' = embed_api_calls
                /\ search_calls' = search_calls
                /\ last_call' = last_call
                /\ all_matched_products' = all_matched_products
                /\ messages' = messages
                /\ remaining' = remaining - 1
          /\ (chat_calls' = chat_calls + 1 /\ last_call.service = "chat") =>
                /\ response = "tool_calls"
                /\ last_call'.request.messages = last_call.request.messages
                /\ last_call' = last_call]_vars

C35_Witness ==
    /\ chat_calls = 2
    /\ tool_rounds = 2
    /\ pc = "loop"
    /\ response = "tool_calls"
    /\ last_call.service = "chat"
    /\ Len(last_call.request.messages) = 4
    /\ messages = last_call.request.messages
    /\ embed_calls = 1

(***************************************************************************)
(* C36: the conversation sent with a model call is the system message and  *)
(* the user message followed by one assistant message and one tool message *)
(* for each search_products invocation resolved so far in the run, 2 + 2k  *)
(* messages for k invocations; each assistant message carries one tool     *)
(* call, and the tool message after it carries the id and the name of      *)
(* that call.                                                              *)
(***************************************************************************)
C36_ConversationShape ==
    last_call.service = "chat" =>
        LET ms == last_call.request.messages
            k == embed_calls
        IN /\ Len(ms) = 2 + 2 * k
           /\ ms[1].role = "system"
           /\ ms[2].role = "user"
           /\ \A j \in 1..k :
                 /\ ms[2 * j + 1].role = "assistant"
                 /\ Len(ms[2 * j + 1].tool_calls) = 1
                 /\ ms[2 * j + 1].tool_calls[1].name = "search_products"
                 /\ ms[2 * j + 2].role = "tool"
                 /\ ms[2 * j + 2].tool_call_id = ms[2 * j + 1].tool_calls[1].id
                 /\ ms[2 * j + 2].name = ms[2 * j + 1].tool_calls[1].name

C36_Witness ==
    /\ last_call.service = "chat"
    /\ Len(last_call.request.messages) = 6
    /\ chat_calls = 2
    /\ tool_rounds = 1
    /\ embed_calls = 2
    /\ last_call.request.messages[4].tool_call_id = 1
    /\ last_call.request.messages[6].tool_call_id = 2
    /\ last_call.request.messages[5].tool_calls[1].id = 2

(***************************************************************************)
(* C39: the confidence of a match returned from the accumulator, rounded   *)
(* by _search_products_function and again by the validator of              *)
(* MatchedProduct, is the confidence written into the tool message for the *)
(* same candidate: the second rounding changes nothing.                    *)
(***************************************************************************)
C39_RoundingIdempotent ==
    (f_out # << >> /\ f_out[1].end.outcome = "result") =>
        LET end == f_out[1].end
        IN /\ Len(end.result[1].matched_products) = Len(f_acc)
           /\ Len(f_acc) = Len(s_out[1])
           /\ \A i \in 1..Len(f_acc) :
                 /\ f_acc[i].confidence = s_out[1][i].confidence
                 /\ end.result[1].matched_products[i].confidence =
                       f_acc[i].confidence
                 /\ end.result[1].matched_products[i].product_name =
                       f_acc[i].product_name

C39_Witness ==
    /\ f_out # << >>
    /\ Len(s_results) = 2
    /\ s_results[1].score = 857
    /\ s_results[2].score = 704
    /\ f_acc[1].confidence = 860
    /\ f_acc[2].confidence = 700
    /\ f_out[1].end.result[1].matched_products[1].confidence = 860
    /\ f_out[1].end.result[1].matched_products[2].confidence = 700

(***************************************************************************)
(* C37: generate_embeddings_batch returns one embedding for each input     *)
(* text, in the order of the texts, whatever the batch size and whether or *)
(* not the list holds blank texts; an empty list ends with ValueError and  *)
(* no API call.                                                            *)
(***************************************************************************)
C37_OneEmbeddingPerText ==
    /\ b_end = "returned" =>
          /\ Len(b_embeddings) = Len(b_texts)
          /\ \A i \in 1..Len(b_texts) :
                b_embeddings[i] = EmbeddingOf(Strip(b_texts[i]))
    /\ (b_pc = "done" /\ b_texts = << >>) =>
          /\ b_end = "ValueError"
          /\ b_calls = << >>

RECURSIVE RunClosure(_)
RunClosure(S) ==
    LET N == S \cup UNION {RunSteps(x.ctl, x.store) : x \in S}
    IN IF N = S THEN S ELSE RunClosure(N)

RunsAlone ==
    RunClosure({[ctl |-> InitialLocals(t), store |-> EmptyStore] :
                   t \in TwoTexts})

(***************************************************************************)
(* C32: however the steps of two calls are interleaved, the locals of each *)
(* call, its conversation and accumulator included, are those of a call    *)
(* running alone on the same transcript with the same answers of the       *)
(* collaborators, so it ends as that call ends; its conversation starts    *)
(* with its own transcript and every match of its accumulator comes from a *)
(* query its own model asked.                                              *)
(***************************************************************************)
C32_RunsDoNotInterfere ==
    \A i \in Threads :
       LET c == t_runs[i]
           m == t_store[Owner(i)]
       IN /\ [ctl |-> c, store |-> m] \in RunsAlone
          /\ m.messages # << >> => m.messages[2] = UserMessage(c.text)
          /\ \A k \in 1..Len(m.all_matched_products) :
                \E j \in 1..Len(c.answers) :
                   /\ c.answers[j].kind = "tool_call"
                   /\ ArgsLoads(c.answers[j].arguments).query =
                         m.all_matched_products[k].context

C32_Witness ==
    /\ t_runs[1].pc = "loop"
    /\ t_runs[1].text = <<"a">>
    /\ Len(t_store[1].messages) = 4
    /\ t_store[1].all_matched_products # << >>
    /\ t_store[1].all_matched_products[1].context = "q1"
    /\ t_runs[2].pc = "search"
    /\ t_runs[2].text = <<"a", "a">>
    /\ t_runs[2].query = "q2"
    /\ Len(t_store[2].messages) = 2
    /\ t_store[2].all_matched_products = << >>
    /\ t_store[1].messages[2] # t_store[2].messages[2]
====
